---------------------------- MODULE Spec2Model ----------------------------
(***************************************************************************)
(* SegFormer fine-tuning notebook (SegFormer_Segmentation_Training.ipynb): *)
(* the training/validation driver loop of the last cell, statement by      *)
(* statement, and the batch loaders it iterates.                           *)
(*                                                                         *)
(* Spec        the driver loop, every step of which may raise              *)
(* NoFailSpec  the driver loop on a run in which no call raises            *)
(* LoaderSpec  one DataLoader (length, batch size, shuffle flag) iterated  *)
(*             for several passes                                          *)
(***************************************************************************)
EXTENDS Integers, Sequences, FiniteSets, TLC

\* ------------------------------------------------------------ configuration

\* train_ds = ...select(range(100)); val_ds = ...select(range(50))
TrainSize == 100
ValSize == 50
\* DataLoader(..., batch_size=4, shuffle=True); DataLoader(..., batch_size=2)
TrainBatchSize == 4
ValBatchSize == 2
TrainShuffle == TRUE
ValShuffle == FALSE
\* AdamW(model.parameters(), lr=5e-5), in units of 1e-6
PeakLrE6 == 50
num_epochs == 5
num_warmup_steps == 0

\* ------------------------------------------------------------ model bounds

\* mean_iou is returned by the metric library; the model draws it from
\* {0/MIoUScale, ..., MIoUScale/MIoUScale}
MIoUScale == 1
\* LoaderSpec: dataset lengths 0..MaxLen, batch sizes 1..MaxBatch, MaxPasses passes
MaxLen == 4
MaxBatch == 3
MaxPasses == 2

Max(a, b) == IF a >= b THEN a ELSE b
Min(a, b) == IF a <= b THEN a ELSE b

\* ------------------------------------------------------------ batch loader
\* torch DataLoader with the arguments of the notebook: drop_last is left at
\* its default (False), the sampler is sequential, or a fresh random
\* permutation per pass when shuffle=True.

\* len(loader): the number of batches of one pass
LoaderLen(L, B) == (L + B - 1) \div B

\* whether the batch sampler has another batch at sampler position pos
HasNextDropLast(L, B, pos) == pos + B <= L
HasNextOffByOne(L, B, pos) == pos + B < L
HasNext(L, B, pos) == pos < L

\* the size of the batch starting at sampler position pos
BatchSizeAt(L, B, pos) == Min(B, L - pos)

Identity(L) == [i \in 1..L |-> i - 1]
Reversed(L) == [i \in 1..L |-> L - i]
Rotated(L) == [i \in 1..L |-> i % L]
AllOrders(L) ==
    {p \in [1..L -> 0..(L - 1)] : \A i, j \in 1..L : p[i] = p[j] => i = j}

\* the index orders the sampler may produce for one pass.  All permutations
\* are enumerated up to MaxLen; beyond it three of them stand for the rest.
SamplerOrders(L, shuffle) ==
    IF ~shuffle THEN {Identity(L)}
    ELSE IF L <= MaxLen THEN AllOrders(L)
    ELSE {Identity(L), Reversed(L), Rotated(L)}

\* ------------------------------------------------------------ scheduler
\* get_scheduler("linear", num_warmup_steps=0, num_training_steps=num_steps):
\* LambdaLR with the linear warm-up / linear decay factor, as a fraction
\* <<numerator, denominator>>.

num_steps_per_sample == num_epochs * TrainSize
num_steps == num_epochs * LoaderLen(TrainSize, TrainBatchSize)

LrLambda(current_step) ==
    IF current_step < num_warmup_steps
    THEN <<current_step, Max(1, num_warmup_steps)>>
    ELSE <<Max(0, num_steps - current_step), Max(1, num_steps - num_warmup_steps)>>

\* the optimizer's learning rate after the scheduler has advanced to step s,
\* in units of 1e-6, as a fraction
LrAt(s) == <<PeakLrE6 * LrLambda(s)[1], LrLambda(s)[2]>>

\* ------------------------------------------------------------ state

VARIABLES
    pc,           \* the statement the driver executes next
    epoch,        \* the loop variable of `for epoch in range(num_epochs)`
    trainPos,     \* sampler position of the train_loader iterator
    valPos,       \* sampler position of the val_loader iterator
    batch,        \* the loop variable `batch`
    training,     \* model.training
    gradEnabled,  \* torch.is_grad_enabled()
    weights,      \* version of the learnable weights (number of writes)
    grads,        \* the batches whose backward pass is accumulated in .grad
    optSteps,     \* number of optimizer.step() calls
    last_epoch,   \* lr_scheduler.last_epoch: number of lr_scheduler.step() calls
    lr,           \* the optimizer's current learning rate (fraction, 1e-6 units)
    accumulator,  \* the entries held by `metric`
    results,      \* results['mean_iou'] of the last metric.compute
    printed,      \* the lines printed so far
    failedAt,     \* the statement that raised, if any
    \* history of the run, read by the properties only
    batchSteps,   \* the steps applied to the current training batch, in order
    updates,      \* per optimizer.step(): the rate and the gradients it used
    evalSnap,     \* weights/optimizer/scheduler state when model.eval() ran
    valEntries,   \* number of model.eval() calls
    fwdModes,     \* <<training, gradEnabled>> of the latest forward pass
    \* the loader of LoaderSpec
    ldLen, ldBatchSize, ldShuffle, ldOrder, ldPos, ldYield, ldPass, ldPc

driverVars == <<pc, epoch, trainPos, valPos, batch, training, gradEnabled,
                weights, grads, optSteps, last_epoch, lr, accumulator, results,
                printed, failedAt, batchSteps, updates, evalSnap, valEntries,
                fwdModes>>
loaderVars == <<ldLen, ldBatchSize, ldShuffle, ldOrder, ldPos, ldYield, ldPass, ldPc>>
vars == <<driverVars, loaderVars>>

NoBatch == [phase |-> "none", epoch |-> 0, idx |-> 0, first |-> 0, size |-> 0]
NoSnap == [weights |-> 0, optSteps |-> 0, last_epoch |-> 0, grads |-> <<>>]
NoResult == -1

\* a batch is identified by the epoch (pass) and its number within the pass
Tag(b) == <<b.epoch, b.idx>>

\* the state after the cells above the driver loop have run: the model is in
\* training mode (model.train()), the scheduler is at step 0, nothing printed
DriverInit ==
    /\ pc = "epoch_head"
    /\ epoch = 0
    /\ trainPos = 0
    /\ valPos = 0
    /\ batch = NoBatch
    /\ training = TRUE
    /\ gradEnabled = TRUE
    /\ weights = 0
    /\ grads = <<>>
    /\ optSteps = 0
    /\ last_epoch = 0
    /\ lr = LrAt(0)
    /\ accumulator = <<>>
    /\ results = NoResult
    /\ printed = <<>>
    /\ failedAt = "none"
    /\ batchSteps = <<>>
    /\ updates = <<>>
    /\ evalSnap = NoSnap
    /\ valEntries = 0
    /\ fwdModes = <<TRUE, TRUE>>

LoaderIdle ==
    /\ ldLen = 0
    /\ ldBatchSize = 1
    /\ ldShuffle = FALSE
    /\ ldOrder = <<>>
    /\ ldPos = 0
    /\ ldYield = <<>>
    /\ ldPass = 0
    /\ ldPc = "idle"

Init == DriverInit /\ LoaderIdle

\* ------------------------------------------------------------ driver loop

\* for epoch in range(num_epochs):
EpochHead ==
    /\ pc = "epoch_head"
    /\ pc' = IF epoch < num_epochs THEN "model_train" ELSE "done"
    /\ UNCHANGED loaderVars
    /\ UNCHANGED <<epoch, trainPos, valPos, batch, training, gradEnabled, weights,
                   grads, optSteps, last_epoch, lr, accumulator, results, printed,
                   failedAt, batchSteps, updates, evalSnap, valEntries, fwdModes>>

\*     model.train()
ModelTrainSkipped ==
    /\ pc = "model_train"
    /\ pc' = "train_iter"
    /\ UNCHANGED loaderVars
    /\ UNCHANGED <<epoch, trainPos, valPos, batch, training, gradEnabled, weights,
                   grads, optSteps, last_epoch, lr, accumulator, results, printed,
                   failedAt, batchSteps, updates, evalSnap, valEntries, fwdModes>>
ModelTrain ==
    /\ pc = "model_train"
    /\ training' = TRUE
    /\ pc' = "train_iter"
    /\ UNCHANGED loaderVars
    /\ UNCHANGED <<epoch, trainPos, valPos, batch, gradEnabled, weights,
                   grads, optSteps, last_epoch, lr, accumulator, results, printed,
                   failedAt, batchSteps, updates, evalSnap, valEntries, fwdModes>>

\*     for batch in train_loader:        (a new iterator: a new pass)
TrainIter ==
    /\ pc = "train_iter"
    /\ trainPos' = 0
    /\ pc' = "train_next"
    /\ UNCHANGED loaderVars
    /\ UNCHANGED <<epoch, valPos, batch, training, gradEnabled, weights,
                   grads, optSteps, last_epoch, lr, accumulator, results, printed,
                   failedAt, batchSteps, updates, evalSnap, valEntries, fwdModes>>

\*     for batch in train_loader:        (the next batch of the pass)
TrainNext ==
    /\ pc = "train_next"
    /\ HasNext(TrainSize, TrainBatchSize, trainPos)
    /\ batch' = [phase |-> "train", epoch |-> epoch,
                 idx |-> trainPos \div TrainBatchSize, first |-> trainPos,
                 size |-> BatchSizeAt(TrainSize, TrainBatchSize, trainPos)]
    /\ trainPos' = trainPos + BatchSizeAt(TrainSize, TrainBatchSize, trainPos)
    /\ batchSteps' = <<>>
    /\ pc' = "forward"
    /\ UNCHANGED loaderVars
    /\ UNCHANGED <<epoch, valPos, training, gradEnabled, weights,
                   grads, optSteps, last_epoch, lr, accumulator, results, printed,
                   failedAt, updates, evalSnap, valEntries, fwdModes>>

\*     for batch in train_loader:        (the pass is exhausted)
TrainDone ==
    /\ pc = "train_next"
    /\ ~HasNext(TrainSize, TrainBatchSize, trainPos)
    /\ pc' = "model_eval"
    /\ UNCHANGED loaderVars
    /\ UNCHANGED <<epoch, trainPos, valPos, batch, training, gradEnabled, weights,
                   grads, optSteps, last_epoch, lr, accumulator, results, printed,
                   failedAt, batchSteps, updates, evalSnap, valEntries, fwdModes>>

\*         batch = {k: v.to(device) ...}; outputs = model(**batch); loss = outputs.loss
Forward ==
    /\ pc = "forward"
    /\ fwdModes' = <<training, gradEnabled>>
    /\ batchSteps' = Append(batchSteps, "forward")
    /\ pc' = "backward"
    /\ UNCHANGED loaderVars
    /\ UNCHANGED <<epoch, trainPos, valPos, batch, training, gradEnabled, weights,
                   grads, optSteps, last_epoch, lr, accumulator, results, printed,
                   failedAt, updates, evalSnap, valEntries>>

\*         loss.backward()               (gradients accumulate into .grad)
Backward ==
    /\ pc = "backward"
    /\ grads' = Append(grads, Tag(batch))
    /\ batchSteps' = Append(batchSteps, "backward")
    /\ pc' = "opt_step"
    /\ UNCHANGED loaderVars
    /\ UNCHANGED <<epoch, trainPos, valPos, batch, training, gradEnabled, weights,
                   optSteps, last_epoch, lr, accumulator, results, printed,
                   failedAt, updates, evalSnap, valEntries, fwdModes>>

\*         optimizer.step()
OptimizerStep ==
    /\ pc = "opt_step"
    /\ weights' = weights + 1
    /\ optSteps' = optSteps + 1
    /\ updates' = Append(updates, [lr |-> lr, grads |-> grads, batch |-> Tag(batch)])
    /\ batchSteps' = Append(batchSteps, "optimizer_step")
    /\ pc' = "sched_step"
    /\ UNCHANGED loaderVars
    /\ UNCHANGED <<epoch, trainPos, valPos, batch, training, gradEnabled,
                   grads, last_epoch, lr, accumulator, results, printed,
                   failedAt, evalSnap, valEntries, fwdModes>>

\*         lr_scheduler.step()
SchedulerStepPerEpoch ==
    /\ pc = "sched_step"
    /\ last_epoch' = IF HasNext(TrainSize, TrainBatchSize, trainPos)
                     THEN last_epoch ELSE last_epoch + 1
    /\ lr' = LrAt(last_epoch')
    /\ batchSteps' = Append(batchSteps, "scheduler_step")
    /\ pc' = "zero_grad"
    /\ UNCHANGED loaderVars
    /\ UNCHANGED <<epoch, trainPos, valPos, batch, training, gradEnabled, weights,
                   grads, optSteps, accumulator, results, printed,
                   failedAt, updates, evalSnap, valEntries, fwdModes>>
SchedulerStep ==
    /\ pc = "sched_step"
    /\ last_epoch' = last_epoch + 1
    /\ lr' = LrAt(last_epoch')
    /\ batchSteps' = Append(batchSteps, "scheduler_step")
    /\ pc' = "zero_grad"
    /\ UNCHANGED loaderVars
    /\ UNCHANGED <<epoch, trainPos, valPos, batch, training, gradEnabled, weights,
                   grads, optSteps, accumulator, results, printed,
                   failedAt, updates, evalSnap, valEntries, fwdModes>>

\*         optimizer.zero_grad()
ZeroGradSkipped ==
    /\ pc = "zero_grad"
    /\ batchSteps' = Append(batchSteps, "zero_grad")
    /\ pc' = "train_next"
    /\ UNCHANGED loaderVars
    /\ UNCHANGED <<epoch, trainPos, valPos, batch, training, gradEnabled, weights,
                   grads, optSteps, last_epoch, lr, accumulator, results, printed,
                   failedAt, updates, evalSnap, valEntries, fwdModes>>
ZeroGrad ==
    /\ pc = "zero_grad"
    /\ grads' = <<>>
    /\ batchSteps' = Append(batchSteps, "zero_grad")
    /\ pc' = "train_next"
    /\ UNCHANGED loaderVars
    /\ UNCHANGED <<epoch, trainPos, valPos, batch, training, gradEnabled, weights,
                   optSteps, last_epoch, lr, accumulator, results, printed,
                   failedAt, updates, evalSnap, valEntries, fwdModes>>

\*     model.eval()
ModelEval ==
    /\ pc = "model_eval"
    /\ training' = FALSE
    /\ evalSnap' = [weights |-> weights, optSteps |-> optSteps,
                    last_epoch |-> last_epoch, grads |-> grads]
    /\ valEntries' = valEntries + 1
    /\ pc' = "metric_reset"
    /\ UNCHANGED loaderVars
    /\ UNCHANGED <<epoch, trainPos, valPos, batch, gradEnabled, weights,
                   grads, optSteps, last_epoch, lr, accumulator, results, printed,
                   failedAt, batchSteps, updates, fwdModes>>

\*     metric.reset()
MetricResetSkipped ==
    /\ pc = "metric_reset"
    /\ pc' = "val_iter"
    /\ UNCHANGED loaderVars
    /\ UNCHANGED <<epoch, trainPos, valPos, batch, training, gradEnabled, weights,
                   grads, optSteps, last_epoch, lr, accumulator, results, printed,
                   failedAt, batchSteps, updates, evalSnap, valEntries, fwdModes>>
MetricReset ==
    /\ pc = "metric_reset"
    /\ accumulator' = <<>>
    /\ pc' = "val_iter"
    /\ UNCHANGED loaderVars
    /\ UNCHANGED <<epoch, trainPos, valPos, batch, training, gradEnabled, weights,
                   grads, optSteps, last_epoch, lr, results, printed,
                   failedAt, batchSteps, updates, evalSnap, valEntries, fwdModes>>

\*     for batch in val_loader:          (a new iterator: a new pass)
ValIter ==
    /\ pc = "val_iter"
    /\ valPos' = 0
    /\ pc' = "val_next"
    /\ UNCHANGED loaderVars
    /\ UNCHANGED <<epoch, trainPos, batch, training, gradEnabled, weights,
                   grads, optSteps, last_epoch, lr, accumulator, results, printed,
                   failedAt, batchSteps, updates, evalSnap, valEntries, fwdModes>>

\*     for batch in val_loader:          (the next batch of the pass)
ValNext ==
    /\ pc = "val_next"
    /\ HasNext(ValSize, ValBatchSize, valPos)
    /\ batch' = [phase |-> "val", epoch |-> epoch,
                 idx |-> valPos \div ValBatchSize, first |-> valPos,
                 size |-> BatchSizeAt(ValSize, ValBatchSize, valPos)]
    /\ valPos' = valPos + BatchSizeAt(ValSize, ValBatchSize, valPos)
    /\ pc' = "no_grad_enter"
    /\ UNCHANGED loaderVars
    /\ UNCHANGED <<epoch, trainPos, training, gradEnabled, weights,
                   grads, optSteps, last_epoch, lr, accumulator, results, printed,
                   failedAt, batchSteps, updates, evalSnap, valEntries, fwdModes>>

\*     for batch in val_loader:          (the pass is exhausted)
ValDone ==
    /\ pc = "val_next"
    /\ ~HasNext(ValSize, ValBatchSize, valPos)
    /\ pc' = "compute"
    /\ UNCHANGED loaderVars
    /\ UNCHANGED <<epoch, trainPos, valPos, batch, training, gradEnabled, weights,
                   grads, optSteps, last_epoch, lr, accumulator, results, printed,
                   failedAt, batchSteps, updates, evalSnap, valEntries, fwdModes>>

\*         batch = {k: v.to(device) ...}; with torch.no_grad():
NoGradEnter ==
    /\ pc = "no_grad_enter"
    /\ gradEnabled' = FALSE
    /\ pc' = "val_forward"
    /\ UNCHANGED loaderVars
    /\ UNCHANGED <<epoch, trainPos, valPos, batch, training, weights,
                   grads, optSteps, last_epoch, lr, accumulator, results, printed,
                   failedAt, batchSteps, updates, evalSnap, valEntries, fwdModes>>

\*             outputs = model(**batch)  (and the with block is left)
ValForwardAndStep ==
    /\ pc = "val_forward"
    /\ fwdModes' = <<training, gradEnabled>>
    /\ gradEnabled' = TRUE
    /\ grads' = Append(grads, Tag(batch))
    /\ weights' = weights + 1
    /\ optSteps' = optSteps + 1
    /\ pc' = "add_batch"
    /\ UNCHANGED loaderVars
    /\ UNCHANGED <<epoch, trainPos, valPos, batch, training,
                   last_epoch, lr, accumulator, results, printed,
                   failedAt, batchSteps, updates, evalSnap, valEntries>>
ValForward ==
    /\ pc = "val_forward"
    /\ fwdModes' = <<training, gradEnabled>>
    /\ gradEnabled' = TRUE
    /\ pc' = "add_batch"
    /\ UNCHANGED loaderVars
    /\ UNCHANGED <<epoch, trainPos, valPos, batch, training, weights,
                   grads, optSteps, last_epoch, lr, accumulator, results, printed,
                   failedAt, batchSteps, updates, evalSnap, valEntries>>

\*         preds = ...argmax(dim=1)...; labels = ...; metric.add_batch(...)
AddBatch ==
    /\ pc = "add_batch"
    /\ accumulator' = Append(accumulator, Tag(batch))
    /\ pc' = "val_next"
    /\ UNCHANGED loaderVars
    /\ UNCHANGED <<epoch, trainPos, valPos, batch, training, gradEnabled, weights,
                   grads, optSteps, last_epoch, lr, results, printed,
                   failedAt, batchSteps, updates, evalSnap, valEntries, fwdModes>>

\*     results = metric.compute(num_labels=..., ignore_index=255, reduce_labels=False)
\* The value is the library's; whether compute also empties the accumulator
\* is not visible in the notebook, so both outcomes are allowed.
MetricCompute ==
    /\ pc = "compute"
    /\ results' \in 0..MIoUScale
    /\ accumulator' \in {accumulator, <<>>}
    /\ pc' = "print"
    /\ UNCHANGED loaderVars
    /\ UNCHANGED <<epoch, trainPos, valPos, batch, training, gradEnabled, weights,
                   grads, optSteps, last_epoch, lr, printed,
                   failedAt, batchSteps, updates, evalSnap, valEntries, fwdModes>>

\*     print(f"Epoch {epoch+1}/{num_epochs} - mIoU: {results['mean_iou']:.4f}")
PrintEpochIndex ==
    /\ pc = "print"
    /\ printed' = Append(printed, [n |-> epoch, total |-> num_epochs,
                                   miou |-> results, scale |-> MIoUScale])
    /\ epoch' = epoch + 1
    /\ pc' = "epoch_head"
    /\ UNCHANGED loaderVars
    /\ UNCHANGED <<trainPos, valPos, batch, training, gradEnabled, weights,
                   grads, optSteps, last_epoch, lr, accumulator, results,
                   failedAt, batchSteps, updates, evalSnap, valEntries, fwdModes>>
PrintLine ==
    /\ pc = "print"
    /\ printed' = Append(printed, [n |-> epoch + 1, total |-> num_epochs,
                                   miou |-> results, scale |-> MIoUScale])
    /\ epoch' = epoch + 1
    /\ pc' = "epoch_head"
    /\ UNCHANGED loaderVars
    /\ UNCHANGED <<trainPos, valPos, batch, training, gradEnabled, weights,
                   grads, optSteps, last_epoch, lr, accumulator, results,
                   failedAt, batchSteps, updates, evalSnap, valEntries, fwdModes>>

\* A call of the statement at pc raises.  Nothing in the cell catches it: the
\* cell ends, and no statement of it runs again.  An exception leaving the
\* with block restores gradient tracking.
RaisingPcs == {"model_train", "train_iter", "train_next", "forward", "backward",
               "opt_step", "sched_step", "zero_grad", "model_eval", "metric_reset",
               "val_iter", "val_next", "no_grad_enter", "val_forward", "add_batch",
               "compute", "print"}

RaiseAndSkipBatch ==
    /\ pc \in RaisingPcs
    /\ (pc = "train_next" => HasNext(TrainSize, TrainBatchSize, trainPos))
    /\ (pc = "val_next" => HasNext(ValSize, ValBatchSize, valPos))
    /\ failedAt' = pc
    /\ gradEnabled' = TRUE
    /\ pc' = IF pc \in {"forward", "backward", "opt_step"} THEN "train_next"
             ELSE "aborted"
    /\ UNCHANGED loaderVars
    /\ UNCHANGED <<epoch, trainPos, valPos, batch, training, weights,
                   grads, optSteps, last_epoch, lr, accumulator, results, printed,
                   batchSteps, updates, evalSnap, valEntries, fwdModes>>
Raise ==
    /\ pc \in RaisingPcs
    /\ (pc = "train_next" => HasNext(TrainSize, TrainBatchSize, trainPos))
    /\ (pc = "val_next" => HasNext(ValSize, ValBatchSize, valPos))
    /\ failedAt' = pc
    /\ gradEnabled' = TRUE
    /\ pc' = "aborted"
    /\ UNCHANGED loaderVars
    /\ UNCHANGED <<epoch, trainPos, valPos, batch, training, weights,
                   grads, optSteps, last_epoch, lr, accumulator, results, printed,
                   batchSteps, updates, evalSnap, valEntries, fwdModes>>

Step ==
    \/ EpochHead
    \/ ModelTrain
    \/ TrainIter
    \/ TrainNext
    \/ TrainDone
    \/ Forward
    \/ Backward
    \/ OptimizerStep
    \/ SchedulerStep
    \/ ZeroGrad
    \/ ModelEval
    \/ MetricReset
    \/ ValIter
    \/ ValNext
    \/ ValDone
    \/ NoGradEnter
    \/ ValForward
    \/ AddBatch
    \/ MetricCompute
    \/ PrintLine

Next == Step \/ Raise

Spec == Init /\ [][Next]_vars
NoFailSpec == Init /\ [][Step]_vars /\ WF_vars(Step)

\* ------------------------------------------------------------ loader passes

\* the two loaders of the notebook, and every small loader
LoaderConfigs ==
    {<<TrainSize, TrainBatchSize, TrainShuffle>>, <<ValSize, ValBatchSize, ValShuffle>>}
    \cup ((0..MaxLen) \X (1..MaxBatch) \X BOOLEAN)

LoaderInit ==
    /\ DriverInit
    /\ \E c \in LoaderConfigs :
        /\ ldLen = c[1]
        /\ ldBatchSize = c[2]
        /\ ldShuffle = c[3]
    /\ ldOrder = <<>>
    /\ ldPos = 0
    /\ ldYield = <<>>
    /\ ldPass = 0
    /\ ldPc = "idle"

\* iter(loader): the sampler draws the order of the pass
LdIter ==
    /\ ldPc \in {"idle", "exhausted"}
    /\ ldPass < MaxPasses
    /\ ldOrder' \in SamplerOrders(ldLen, ldShuffle)
    /\ ldPos' = 0
    /\ ldYield' = <<>>
    /\ ldPass' = ldPass + 1
    /\ ldPc' = "iterating"
    /\ UNCHANGED <<ldLen, ldBatchSize, ldShuffle>>
    /\ UNCHANGED driverVars

\* next(iterator): the next batch_size indices of the order, or those left
LdNext ==
    /\ ldPc = "iterating"
    /\ HasNext(ldLen, ldBatchSize, ldPos)
    /\ ldYield' = Append(ldYield,
                         SubSeq(ldOrder, ldPos + 1,
                                ldPos + BatchSizeAt(ldLen, ldBatchSize, ldPos)))
    /\ ldPos' = ldPos + BatchSizeAt(ldLen, ldBatchSize, ldPos)
    /\ UNCHANGED <<ldLen, ldBatchSize, ldShuffle, ldOrder, ldPass, ldPc>>
    /\ UNCHANGED driverVars

\* next(iterator) raises StopIteration: the pass is over
LdStop ==
    /\ ldPc = "iterating"
    /\ ~HasNext(ldLen, ldBatchSize, ldPos)
    /\ ldPc' = "exhausted"
    /\ UNCHANGED <<ldLen, ldBatchSize, ldShuffle, ldOrder, ldPos, ldYield, ldPass>>
    /\ UNCHANGED driverVars

LoaderNext == LdIter \/ LdNext \/ LdStop

LoaderSpec == LoaderInit /\ [][LoaderNext]_vars

\* ------------------------------------------------------------ properties

\* how often sample index i was yielded in the pass
TimesYielded(i) ==
    Cardinality({kj \in (1..Len(ldYield)) \X (1..ldBatchSize) :
                    /\ kj[2] <= Len(ldYield[kj[1]])
                    /\ ldYield[kj[1]][kj[2]] = i})

\* C3: a finished pass of a loader over L samples with batch size B has yielded
\* ceil(L/B) batches (which is also len(loader)), the first L div B of them of
\* size B and, when B does not divide L, a last one of size L mod B; every
\* index 0..L-1 was yielded exactly once.  With and without shuffle, for the
\* two loaders of the notebook, and in every pass.
C3_LoaderPass ==
    ldPc = "exhausted" =>
        /\ Len(ldYield) * ldBatchSize >= ldLen
        /\ (Len(ldYield) - 1) * ldBatchSize < ldLen
        /\ Len(ldYield) = LoaderLen(ldLen, ldBatchSize)
        /\ \A k \in 1..(ldLen \div ldBatchSize) : Len(ldYield[k]) = ldBatchSize
        /\ (ldLen % ldBatchSize # 0 =>
                Len(ldYield[Len(ldYield)]) = ldLen % ldBatchSize)
        /\ \A k \in 1..Len(ldYield) : Len(ldYield[k]) \in 1..ldBatchSize
        /\ \A i \in 0..(ldLen - 1) : TimesYielded(i) = 1
        /\ \A k \in 1..Len(ldYield) : \A j \in 1..Len(ldYield[k]) :
                ldYield[k][j] \in 0..(ldLen - 1)

\* a second, shuffled pass has ended with a short last batch
C3_Witness ==
    /\ ldPc = "exhausted"
    /\ ldShuffle
    /\ ldPass = 2
    /\ ldLen % ldBatchSize # 0
    /\ ldLen > ldBatchSize
    /\ ldOrder # Identity(ldLen)

\* ---------------------------------------------------------- driver properties

\* the statement the run is at, or was at when it raised
At == IF pc = "aborted" THEN failedAt ELSE pc

TrainBodyPcs == {"forward", "backward", "opt_step", "sched_step", "zero_grad"}
TrainPhasePcs == {"model_train", "train_iter", "train_next"} \cup TrainBodyPcs
ValLoopPcs == {"val_next", "no_grad_enter", "val_forward", "add_batch"}
ValPhasePcs == {"metric_reset", "val_iter"} \cup ValLoopPcs
AfterValPcs == {"compute", "print"}

\* ceil(L / B), by its definition
CeilDiv(L, B) == CHOOSE n \in 0..L : n * B >= L /\ (n - 1) * B < L

TrainBatches == CeilDiv(TrainSize, TrainBatchSize)
ValBatches == CeilDiv(ValSize, ValBatchSize)

FullBatchSteps ==
    <<"forward", "backward", "optimizer_step", "scheduler_step", "zero_grad">>

\* C1: in every epoch all training batches come first, then all validation
\* batches, then the metric and the printed line.  Validation of epoch e runs
\* only after the last training batch of e has completed its update and the
\* steps after it; training of epoch e+1 runs only after the line of epoch e
\* was printed; validation is entered exactly once per epoch.
C1_PhaseOrder ==
    /\ At \in {"epoch_head", "done"} \cup TrainPhasePcs =>
            /\ Len(printed) = epoch
            /\ valEntries = epoch
            /\ optSteps >= epoch * TrainBatches
            /\ optSteps <= (epoch + 1) * TrainBatches
    /\ At \in {"model_eval"} \cup ValPhasePcs \cup AfterValPcs =>
            /\ trainPos = TrainSize
            /\ optSteps = (epoch + 1) * TrainBatches
            /\ last_epoch = optSteps
            /\ batchSteps = FullBatchSteps
            /\ Len(printed) = epoch
            /\ valEntries = IF At = "model_eval" THEN epoch ELSE epoch + 1
    /\ At \in AfterValPcs =>
            /\ valPos = ValSize
            /\ batch.phase = "val" /\ batch.epoch = epoch
            /\ batch.idx = ValBatches - 1
    /\ At = "compute" => Len(accumulator) = ValBatches
    /\ At = "done" => epoch = num_epochs

\* the last epoch's validation runs
C1_Witness ==
    /\ pc = "val_forward"
    /\ epoch = num_epochs - 1
    /\ valEntries = num_epochs
    /\ Len(printed) = num_epochs - 1
    /\ optSteps = num_epochs * TrainBatches

CurrentSnap ==
    [weights |-> weights, optSteps |-> optSteps, last_epoch |-> last_epoch,
     grads |-> grads]

\* C2: from model.eval() to the metric computation (and the print) the
\* weights are those model.eval() saw, and no optimizer update, scheduler
\* advance or backward pass happened; the weights change only in the step
\* that is optimizer.step() of the training loop.
C2_ValidationReadOnly ==
    /\ [](At \in ValPhasePcs \cup AfterValPcs => CurrentSnap = evalSnap)
    /\ [][weights' # weights =>
            pc = "opt_step" /\ pc' = "sched_step" /\ batch.phase = "train"]_vars

\* the metric of the second epoch is about to be computed
C2_Witness ==
    /\ pc = "compute"
    /\ epoch = 1
    /\ weights = 2 * TrainBatches
    /\ evalSnap.weights = weights
    /\ Len(accumulator) = ValBatches

\* a learning rate <<n, d>> equals PeakLrE6 * a / b
LrIs(r, a, b) == r[1] * b = PeakLrE6 * a * r[2]

\* C4: num_steps is 5 * ceil(100 / 4) = 125; training step 1 starts at the
\* peak rate 5e-5 (its update uses it), and the rate becomes 0 in training
\* step 125, by the scheduler advance that ends it: the rate is 0 exactly
\* when the scheduler has advanced 125 times, which is where the run ends.
C4_Schedule ==
    /\ num_steps = num_epochs * TrainBatches
    /\ num_steps = 125
    /\ (lr[1] = 0 => optSteps = 125 /\ Len(updates) = 125
                      /\ updates[125].batch = <<num_epochs - 1, TrainBatches - 1>>)
    /\ (Len(updates) >= 1 => LrIs(updates[1].lr, 1, 1))
    /\ (last_epoch = 0 => LrIs(lr, 1, 1))
    /\ (lr[1] = 0 <=> last_epoch = 125)
    /\ (At = "done" => last_epoch = 125 /\ lr[1] = 0)
    /\ lr[2] > 0

\* the run has ended with the rate at 0 after 125 steps
C4_Witness ==
    /\ pc = "done"
    /\ last_epoch = 125
    /\ lr[1] = 0
    /\ LrIs(updates[1].lr, 1, 1)

\* line k reads "Epoch k/5 - mIoU: v" with v in [0, 1]
LineOk(k) ==
    /\ printed[k].n = k
    /\ printed[k].total = 5
    /\ printed[k].miou >= 0
    /\ printed[k].miou <= printed[k].scale

\* C5: a run in which nothing raises ends, with exactly 5 lines printed,
\* the k-th being that of epoch k; lines are only ever appended, one at a
\* time, each after the validation pass of its epoch.
C5_FiveLines ==
    /\ <>[](pc = "done" /\ Len(printed) = 5 /\ \A k \in 1..5 : LineOk(k))
    /\ [](Len(printed) <= valEntries /\ \A k \in 1..Len(printed) : LineOk(k))
    /\ [][printed' # printed =>
            /\ Len(printed') = Len(printed) + 1
            /\ SubSeq(printed', 1, Len(printed)) = printed
            /\ valEntries = Len(printed')
            /\ valPos = ValSize]_vars

\* the run has ended; the values printed are not monotonic
C5_Witness ==
    /\ pc = "done"
    /\ Len(printed) = 5
    /\ printed[1].miou > printed[2].miou
    /\ printed[2].miou < printed[3].miou

\* C6: once a statement has raised, the run is over: no statement runs and
\* nothing is printed after it; the lines printed are those of the completed
\* epochs, one each, and none for the epoch that failed.
C6_FailStop ==
    /\ [](failedAt # "none" =>
            /\ pc = "aborted"
            /\ failedAt \in RaisingPcs
            /\ Len(printed) = epoch
            /\ epoch < num_epochs
            /\ valEntries \in {epoch, epoch + 1}
            /\ optSteps >= epoch * TrainBatches
            /\ optSteps <= (epoch + 1) * TrainBatches
            /\ \A k \in 1..Len(printed) : printed[k].n = k)
    /\ [][failedAt # "none" \/ pc = "aborted" => UNCHANGED vars]_vars
    /\ [][failedAt' # "none" => UNCHANGED printed]_vars

\* metric.add_batch raised in the third epoch
C6_Witness ==
    /\ pc = "aborted"
    /\ failedAt = "add_batch"
    /\ epoch = 2
    /\ Len(printed) = 2
    /\ Len(accumulator) > 0

\* the validation batches of this epoch's pass that were fetched so far
ValFetched == CeilDiv(valPos, ValBatchSize)

\* C7: the accumulator is empty when the first validation batch of an epoch
\* is processed, gets one entry per validation batch, and when the metric is
\* computed holds the entries of the 25 validation batches of this epoch,
\* in order, and nothing of an earlier epoch.
C7_AccumulatorScope ==
    /\ At \in {"val_iter"} => accumulator = <<>>
    /\ At = "val_next" =>
            accumulator = [k \in 1..ValFetched |-> <<epoch, k - 1>>]
    /\ At \in {"no_grad_enter", "val_forward", "add_batch"} =>
            /\ accumulator = [k \in 1..(ValFetched - 1) |-> <<epoch, k - 1>>]
            /\ batch.idx = ValFetched - 1
            /\ (batch.idx = 0 => accumulator = <<>>)
    /\ At = "compute" =>
            /\ accumulator = [k \in 1..25 |-> <<epoch, k - 1>>]
            /\ valPos = 50
            /\ ValBatches = 25

\* the metric of the second epoch is about to be computed
C7_Witness ==
    /\ pc = "compute"
    /\ epoch = 1
    /\ Len(accumulator) = 25
    /\ accumulator[1] = <<1, 0>>
    /\ Len(printed) = 1

\* the training batches of this epoch's pass that were fetched so far
TrainFetched == CeilDiv(trainPos, TrainBatchSize)

\* the k-th training batch of the run
NthBatch(k) == <<(k - 1) \div TrainBatches, (k - 1) % TrainBatches>>

\* the steps done on the current batch when the run is at a body statement
StepsBefore(at) ==
    CASE at = "forward" -> 0
      [] at = "backward" -> 1
      [] at = "opt_step" -> 2
      [] at = "sched_step" -> 3
      [] at = "zero_grad" -> 4
      [] OTHER -> 5

\* C8: every training batch gets forward, backward, one optimizer update,
\* one scheduler advance and the gradient clear, in this order; the k-th
\* update belongs to the k-th batch and uses the gradients of that batch's
\* backward pass alone; no gradient is left when a batch starts.
C8_BatchSteps ==
    /\ At \in TrainBodyPcs =>
            /\ batchSteps = SubSeq(FullBatchSteps, 1, StepsBefore(At))
            /\ batch.phase = "train"
            /\ Tag(batch) = NthBatch(epoch * TrainBatches + TrainFetched)
    /\ (At \notin TrainBodyPcs /\ optSteps > 0) => batchSteps = FullBatchSteps
    /\ At \in {"train_next", "forward", "backward"} =>
            Len(updates) = epoch * TrainBatches + TrainFetched
                           - (IF At = "train_next" THEN 0 ELSE 1)
    /\ At \in {"sched_step", "zero_grad"} =>
            /\ Len(updates) = epoch * TrainBatches + TrainFetched
            /\ updates[Len(updates)].batch = Tag(batch)
    /\ At \in {"train_next", "forward"} => grads = <<>>
    /\ At = "opt_step" => grads = <<Tag(batch)>>
    /\ \A k \in 1..Len(updates) :
            /\ updates[k].batch = NthBatch(k)
            /\ updates[k].grads = <<NthBatch(k)>>
    /\ Len(updates) = optSteps

\* the update of the first batch of the second epoch, after a validation pass
C8_Witness ==
    /\ pc = "sched_step"
    /\ epoch = 1
    /\ batch.idx = 0
    /\ valEntries = 1
    /\ updates[Len(updates)].grads = <<<<1, 0>>>>

\* C9: validation forward passes run in eval mode with gradient tracking
\* off; the training steps of every epoch run in training mode with
\* gradient tracking on.
C9_Modes ==
    /\ At \in TrainBodyPcs => training /\ gradEnabled
    /\ pc = "val_forward" => ~training /\ ~gradEnabled
    /\ At \in {"backward", "opt_step", "sched_step", "zero_grad"} =>
            fwdModes = <<TRUE, TRUE>>
    /\ At = "add_batch" => fwdModes = <<FALSE, FALSE>>
    /\ At \in ValPhasePcs \cup AfterValPcs => ~training

\* a training forward pass of the second epoch, after the first validation
C9_Witness ==
    /\ pc = "backward"
    /\ epoch = 1
    /\ valEntries = 1
    /\ training
    /\ fwdModes = <<TRUE, TRUE>>

\* the training batches completed so far in the whole run
Processed ==
    IF At = "train_next" THEN epoch * TrainBatches + TrainFetched
    ELSE IF At \in {"model_eval"} \cup ValPhasePcs \cup AfterValPcs
    THEN (epoch + 1) * TrainBatches
    ELSE epoch * TrainBatches

\* C10: between batches the scheduler advances, the optimizer updates and the
\* training batches processed are equally many, and never more than 125; the
\* k-th update runs at 5e-5 * (125 - (k - 1)) / 125, which is positive; the
\* rate is 0 only once the scheduler has advanced after the 125th update.
C10_StepCounts ==
    /\ At \notin TrainBodyPcs =>
            /\ last_epoch = optSteps
            /\ optSteps = Processed
    /\ optSteps <= 125
    /\ last_epoch <= 125
    /\ last_epoch <= optSteps
    /\ optSteps <= last_epoch + 1
    /\ \A k \in 1..Len(updates) :
            /\ LrIs(updates[k].lr, 125 - (k - 1), 125)
            /\ updates[k].lr[1] > 0
    /\ (lr[1] = 0 => last_epoch = 125 /\ optSteps = 125 /\ At \notin {"opt_step"})
    /\ (At = "opt_step" => lr[1] > 0)

\* the scheduler has advanced after the 125th update
C10_Witness ==
    /\ pc = "zero_grad"
    /\ optSteps = 125
    /\ last_epoch = 125
    /\ lr[1] = 0
    /\ updates[125].lr[1] > 0

=============================================================================
